---- MODULE Spec2Model ----
(***************************************************************************)
(* Shopping Cart Settings (shopping_cart_settings.py): territory-scoped    *)
(* rule resolution and its save-time validation.                           *)
(*                                                                         *)
(* `self` is one ShoppingCartSettings object, `db` the database it reads   *)
(* (Applicable Territory rows, the Territory tree, currencies, Currency    *)
(* Exchange records).  Python's None is the string "None"; where a method  *)
(* returns "a list or None" the list is never empty in the code, and None  *)
(* is written <<>>.                                                        *)
(***************************************************************************)
EXTENDS Integers, Sequences, FiniteSets, Bags, TLC

VARIABLES self, db, calls, last, passed

vars == <<self, db, calls, last, passed>>

None == "None"

\* ------------------------------------------------------------------------
\* Bounds of the model
\* ------------------------------------------------------------------------
\* rows of `tabApplicable Territory` for the documents of one child table
MaxRows == 2
\* rows of one child table of the settings document
MaxEntries == 2
\* calls of get_ancestors_of counted per territory and session
MaxCalls == 2
\* records of `tabCurrency Exchange`
MaxRates == 2

Territories == {"All Territories", "Asia", "India"}
Currencies == {"USD", "EUR", "INR"}

ParentFields == {"price_lists", "sales_taxes_and_charges_masters", "shipping_rules"}

\* self.meta.get_field(fieldname, parentfield=parentfield).options
ParentType(parentfield) ==
    CASE parentfield = "price_lists" -> "Price List"
      [] parentfield = "sales_taxes_and_charges_masters" -> "Sales Taxes and Charges Master"
      [] parentfield = "shipping_rules" -> "Shipping Rule"

\* self.meta.get_field(parentfield).options
ChildDoctype(parentfield) ==
    CASE parentfield = "price_lists" -> "Shopping Cart Price List"
      [] parentfield = "sales_taxes_and_charges_masters" -> "Shopping Cart Taxes and Charges Master"
      [] parentfield = "shipping_rules" -> "Shopping Cart Shipping Rule"

\* the documents a row of each child table can link to
DocNames(parentfield) ==
    CASE parentfield = "price_lists" -> {"PL-A", "PL-B"}
      [] parentfield = "sales_taxes_and_charges_masters" -> {"TM-A", "TM-B"}
      [] parentfield = "shipping_rules" -> {"SR-A", "SR-B"}

Range(s) == {s[i] : i \in 1..Len(s)}

\* ------------------------------------------------------------------------
\* Python helpers
\* ------------------------------------------------------------------------
\* names.index(val): the first position of val
index(names, val) ==
    CHOOSE i \in 1..Len(names) : names[i] = val /\ \A j \in 1..(i-1) : names[j] # val

\* sort as a bug would have it: the list is left in the order of the query result
sort_unsorted(lst, names) == lst

\* list.sort(key=lambda val: names.index(val)); Python's sort is stable
RECURSIVE sort(_, _)
sort(lst, names) ==
    IF Len(lst) <= 1 THEN lst
    ELSE LET rest == sort(SubSeq(lst, 1, Len(lst) - 1), names)
             x == lst[Len(lst)]
             pos == Cardinality({i \in 1..Len(rest) : index(names, rest[i]) <= index(names, x)})
         IN  SubSeq(rest, 1, pos) \o <<x>> \o SubSeq(rest, pos + 1, Len(rest))

\* territory_name_map.setdefault(territory, []).append(name)
setdefault_append(m, territory, name) ==
    IF territory \in DOMAIN m
    THEN [m EXCEPT ![territory] = Append(@, name)]
    ELSE m @@ (territory :> <<name>>)

\* dict.get(key) of a dict of lists, None written <<>>
get(m, key) == IF key \in DOMAIN m THEN m[key] ELSE <<>>

\* ------------------------------------------------------------------------
\* The database
\* ------------------------------------------------------------------------
\* select territory, parent from `tabApplicable Territory`
\*   where parenttype = %s and parent in (names)
\* The query has no ORDER BY: every order of the matching rows is a result.
sql_applicable_territory(d, parenttype, names) ==
    LET tab == d.applicable_territory
        hit == {r \in DOMAIN tab : r.parenttype = parenttype /\ r.parent \in Range(names)}
        n == IF hit = {} THEN 0 ELSE BagCardinality([r \in hit |-> tab[r]])
    IN  {s \in [1..n -> hit] : \A r \in hit : Cardinality({i \in 1..n : s[i] = r}) = tab[r]}

\* frappe.utils.nestedset.get_ancestors_of("Territory", name): the ancestors of
\* name in the tree, nearest first (select ... order by lft desc)
RECURSIVE get_ancestors_of(_, _)
get_ancestors_of(d, name) ==
    IF d.parent_territory[name] = None THEN <<>>
    ELSE <<d.parent_territory[name]>> \o get_ancestors_of(d, d.parent_territory[name])

\* ------------------------------------------------------------------------
\* ShoppingCartSettings
\* ------------------------------------------------------------------------
\* the loop of get_territory_name_map over the first k rows of the query result
RECURSIVE map_rows(_, _, _)
map_rows(territory_name, names, k) ==
    IF k = 0 THEN <<>>
    ELSE LET m == map_rows(territory_name, names, k - 1)
             territory == territory_name[k].territory
             m1 == setdefault_append(m, territory, territory_name[k].parent)
         IN  IF Len(m1[territory]) > 1
             THEN [m1 EXCEPT ![territory] = sort(@, names)]
             ELSE m1

\* get_territory_name_map: the maps it can return, one per order of the query result
get_territory_name_map(s, d, parentfield) ==
    LET names == s[parentfield]
    IN  IF names # <<>>
        THEN {map_rows(territory_name, names, Len(territory_name)) :
                 territory_name \in sql_applicable_territory(d, ParentType(parentfield), names)}
        ELSE {<<>>}

\* get_territory_ancestry: the object after the call, the calls of
\* get_ancestors_of so far, and the chain returned
get_territory_ancestry(s, d, c, territory) ==
    LET s1 == [s EXCEPT !.has_territory_ancestry = TRUE]
    IN  IF get(s1.territory_ancestry, territory) = <<>>
        THEN LET chain == get_ancestors_of(d, territory)
             IN  [self |-> [s1 EXCEPT !.territory_ancestry =
                               [t \in (DOMAIN @) \cup {territory} |->
                                   IF t = territory THEN chain ELSE @[t]]],
                  calls |-> [c EXCEPT ![territory] = @ + 1],
                  ret |-> chain]
        ELSE [self |-> s1, calls |-> c, ret |-> s1.territory_ancestry[territory]]

\* first_ancestor_entry as a bug would have it: the chain is walked from the
\* root down, so the farthest ancestor with an entry wins
RECURSIVE first_ancestor_entry_from_root(_, _, _)
first_ancestor_entry_from_root(territory_name_map, territory_ancestry, i) ==
    LET k == Len(territory_ancestry) + 1 - i
    IN  IF i > Len(territory_ancestry) THEN <<>>
        ELSE IF get(territory_name_map, territory_ancestry[k]) # <<>>
             THEN get(territory_name_map, territory_ancestry[k])
             ELSE first_ancestor_entry_from_root(territory_name_map, territory_ancestry, i + 1)

\* the for loop of get_name_from_territory from position i of the chain
RECURSIVE first_ancestor_entry(_, _, _)
first_ancestor_entry(territory_name_map, territory_ancestry, i) ==
    IF i > Len(territory_ancestry) THEN <<>>
    ELSE IF get(territory_name_map, territory_ancestry[i]) # <<>>
         THEN get(territory_name_map, territory_ancestry[i])
         ELSE first_ancestor_entry(territory_name_map, territory_ancestry, i + 1)

\* get_name_from_territory as a bug would have it: the ancestry is fetched
\* before the direct entry is looked at
get_name_from_territory_eager(s, d, c, territory, parentfield) ==
    {LET a == get_territory_ancestry(s, d, c, territory)
     IN  [self |-> a.self, calls |-> a.calls,
          name |-> IF get(territory_name_map, territory) # <<>>
                   THEN get(territory_name_map, territory)
                   ELSE first_ancestor_entry(territory_name_map, a.ret, 1)] :
        territory_name_map \in get_territory_name_map(s, d, parentfield)}

\* get_name_from_territory as a bug would have it: when nothing matches, the
\* first row of the child table is taken as a catch-all
get_name_from_territory_catch_all(s, d, c, territory, parentfield) ==
    {IF get(territory_name_map, territory) # <<>>
     THEN [self |-> s, calls |-> c, name |-> get(territory_name_map, territory)]
     ELSE LET a == get_territory_ancestry(s, d, c, territory)
              name == first_ancestor_entry(territory_name_map, a.ret, 1)
          IN  [self |-> a.self, calls |-> a.calls,
               name |-> IF name = <<>> /\ s[parentfield] # <<>>
                        THEN <<s[parentfield][1]>> ELSE name] :
        territory_name_map \in get_territory_name_map(s, d, parentfield)}

\* get_name_from_territory: the outcomes of one call
get_name_from_territory(s, d, c, territory, parentfield) ==
    {IF get(territory_name_map, territory) # <<>>
     THEN [self |-> s, calls |-> c, name |-> get(territory_name_map, territory)]
     ELSE LET a == get_territory_ancestry(s, d, c, territory)
          IN  [self |-> a.self, calls |-> a.calls,
               name |-> first_ancestor_entry(territory_name_map, a.ret, 1)] :
        territory_name_map \in get_territory_name_map(s, d, parentfield)}

\* ------------------------------------------------------------------------
\* Validation (the errors are the parts of the message shown to the user)
\* ------------------------------------------------------------------------
NoError == [msg |-> "ok", subject |-> None, names |-> <<>>, territory |-> None, missing |-> {}]

Error(msg, subject, names, territory, missing) ==
    [msg |-> msg, subject |-> subject, names |-> names, territory |-> territory,
     missing |-> missing]

\* validate_overlapping_territories as a bug would have it: two names for one
\* territory are let through (len(names) > 2)
validate_overlapping_territories_off_by_one(s, d, parentfield) ==
    IF s[parentfield] = <<>>
    THEN {Error("Please enter atleast one row in table", parentfield, <<>>, None, {})}
    ELSE UNION {
           LET common == {t \in DOMAIN territory_name_map : Len(territory_name_map[t]) > 2}
           IN  IF common = {} THEN {NoError}
               ELSE {Error("have a common territory", ChildDoctype(parentfield),
                           territory_name_map[t], t, {}) : t \in common} :
           territory_name_map \in get_territory_name_map(s, d, parentfield)}

\* validate_overlapping_territories: the outcomes of one call. The loop over
\* territory_name_map.items() raises at the first territory with several
\* names; a dict's iteration order picks which one that is.
validate_overlapping_territories(s, d, parentfield) ==
    IF s[parentfield] = <<>>
    THEN {Error("Please enter atleast one row in table", parentfield, <<>>, None, {})}
    ELSE UNION {
           LET common == {t \in DOMAIN territory_name_map : Len(territory_name_map[t]) > 1}
           IN  IF common = {} THEN {NoError}
               ELSE {Error("have a common territory", ChildDoctype(parentfield),
                           territory_name_map[t], t, {}) : t \in common} :
           territory_name_map \in get_territory_name_map(s, d, parentfield)}

\* validate_price_lists as a bug would have it: the result of resolving the
\* default territory is not looked at
validate_price_lists_unchecked(s, d, c) ==
    UNION {
      IF e # NoError
      THEN {[err |-> e, self |-> s, calls |-> c, checks |-> <<"price_lists overlap">>]}
      ELSE {[err |-> NoError, self |-> o.self, calls |-> o.calls,
             checks |-> <<"price_lists overlap", "price_lists default territory">>] :
               o \in get_name_from_territory(s, d, c, s.default_territory, "price_lists")} :
      e \in validate_overlapping_territories(s, d, "price_lists")}

\* validate_price_lists: the outcomes of one call, with the checks it started
validate_price_lists(s, d, c) ==
    UNION {
      IF e # NoError
      THEN {[err |-> e, self |-> s, calls |-> c, checks |-> <<"price_lists overlap">>]}
      ELSE {[err |-> IF o.name = <<>>
                     THEN Error("Please specify a Price List which is valid for Territory",
                                None, <<>>, s.default_territory, {})
                     ELSE NoError,
             self |-> o.self, calls |-> o.calls,
             checks |-> <<"price_lists overlap", "price_lists default territory">>] :
               o \in get_name_from_territory(s, d, c, s.default_territory, "price_lists")} :
      e \in validate_overlapping_territories(s, d, "price_lists")}

\* validate_tax_masters
validate_tax_masters(s, d) ==
    validate_overlapping_territories(s, d, "sales_taxes_and_charges_masters")

\* currency + "-" + company_currency, kept as its three parts
exchange_name(currency, company_currency) == <<currency, "-", company_currency>>

\* validate_exchange_rates_exist as a bug would have it: the company's own
\* currency is not left out of the expected exchange rates
validate_exchange_rates_exist_unfiltered(s, d) ==
    LET company_currency == d.company_currency
        price_lists == Range(s.price_lists) \cap DOMAIN d.price_list_currency
        price_list_currency_map == [p \in price_lists |-> d.price_list_currency[p]]
        no_currency == {p \in price_lists : price_list_currency_map[p] = None}
        expected_to_exist == {exchange_name(price_list_currency_map[p], company_currency) :
                                 p \in price_lists}
        exists == expected_to_exist \cap d.currency_exchange
        missing == expected_to_exist \ exists
    IN  IF company_currency = None
        THEN {Error("Please specify currency in Company", s.company, <<>>, None, {})}
        ELSE IF no_currency # {}
        THEN {Error("Currency is missing for Price List", p, <<>>, None, {}) : p \in no_currency}
        ELSE IF expected_to_exist # {} /\ missing # {}
        THEN {Error("Missing Currency Exchange Rates for", None, <<>>, None, missing)}
        ELSE {NoError}

\* validate_exchange_rates_exist: the outcomes of one call
validate_exchange_rates_exist(s, d) ==
    LET company_currency == d.company_currency
        price_lists == Range(s.price_lists) \cap DOMAIN d.price_list_currency
        price_list_currency_map == [p \in price_lists |-> d.price_list_currency[p]]
        no_currency == {p \in price_lists : price_list_currency_map[p] = None}
        expected_to_exist == {exchange_name(price_list_currency_map[p], company_currency) :
                                 p \in {q \in price_lists :
                                           price_list_currency_map[q] # company_currency}}
        exists == expected_to_exist \cap d.currency_exchange
        missing == expected_to_exist \ exists
    IN  IF company_currency = None
        THEN {Error("Please specify currency in Company", s.company, <<>>, None, {})}
        ELSE IF no_currency # {}
        THEN {Error("Currency is missing for Price List", p, <<>>, None, {}) : p \in no_currency}
        ELSE IF expected_to_exist # {} /\ missing # {}
        THEN {Error("Missing Currency Exchange Rates for", None, <<>>, None, missing)}
        ELSE {NoError}

\* validate as a bug would have it: the exchange rates are checked before the
\* tax masters
validate_rates_first(s, d, c) ==
    IF ~s.enabled
    THEN {[err |-> NoError, self |-> s, calls |-> c, checks |-> <<>>]}
    ELSE UNION {
           IF p.err # NoError THEN {p}
           ELSE UNION {
                  IF x # NoError
                  THEN {[p EXCEPT !.err = x, !.checks = Append(@, "exchange rates")]}
                  ELSE {[p EXCEPT !.err = t,
                                  !.checks = @ \o <<"exchange rates",
                                                    "sales_taxes_and_charges_masters overlap">>] :
                           t \in validate_tax_masters(p.self, d)} :
                  x \in validate_exchange_rates_exist(p.self, d)} :
           p \in validate_price_lists(s, d, c)}

\* validate: the outcomes of one save, with the checks it started, in order
validate(s, d, c) ==
    IF ~s.enabled
    THEN {[err |-> NoError, self |-> s, calls |-> c, checks |-> <<>>]}
    ELSE UNION {
           IF p.err # NoError THEN {p}
           ELSE UNION {
                  IF t # NoError
                  THEN {[p EXCEPT !.err = t,
                                  !.checks = Append(@, "sales_taxes_and_charges_masters overlap")]}
                  ELSE {[p EXCEPT !.err = x,
                                  !.checks = @ \o <<"sales_taxes_and_charges_masters overlap",
                                                    "exchange rates">>] :
                           x \in validate_exchange_rates_exist(p.self, d)} :
                  t \in validate_tax_masters(p.self, d)} :
           p \in validate_price_lists(s, d, c)}

\* get_price_list; `name` is its local price_list
get_price_list(s, d, c, billing_territory) ==
    {[self |-> o.self, calls |-> o.calls, name |-> o.name,
      ret |-> IF o.name # <<>> /\ o.name[1] # "" THEN o.name[1] ELSE None] :
        o \in get_name_from_territory(s, d, c, billing_territory, "price_lists")}

\* get_tax_master; `name` is its local tax_master
get_tax_master(s, d, c, billing_territory) ==
    {[self |-> o.self, calls |-> o.calls, name |-> o.name,
      ret |-> IF o.name # <<>> /\ o.name[1] # "" THEN o.name[1] ELSE None] :
        o \in get_name_from_territory(s, d, c, billing_territory,
                                      "sales_taxes_and_charges_masters")}

\* get_shipping_rules
get_shipping_rules(s, d, c, shipping_territory) ==
    {[self |-> o.self, calls |-> o.calls, name |-> o.name, ret |-> o.name] :
        o \in get_name_from_territory(s, d, c, shipping_territory, "shipping_rules")}

\* ------------------------------------------------------------------------
\* States
\* ------------------------------------------------------------------------
SeqsUpTo(S, n) == UNION {[1..k -> S] : k \in 0..n}

RECURSIVE BagsUpTo(_, _)
BagsUpTo(S, n) ==
    IF n = 0 THEN {EmptyBag}
    ELSE LET B == BagsUpTo(S, n - 1)
         IN  B \cup {b (+) SetToBag({r}) : b \in B, r \in S}

\* the rows `tabApplicable Territory` can hold for the documents of one child table
Rows(parentfield) ==
    [territory : Territories, parenttype : {ParentType(parentfield)},
     parent : DocNames(parentfield)]

RECURSIVE Acyclic(_, _, _)
Acyclic(p, t, n) == p[t] = None \/ (n > 0 /\ Acyclic(p, p[t], n - 1))

\* the Territory trees: "All Territories" is the one root of the nested set
\* and Asia lies right below it; India is below the root or below Asia
TerritoryTrees ==
    {p \in [Territories -> Territories \cup {None}] :
        /\ \A t \in Territories : (p[t] = None) <=> (t = "All Territories")
        /\ p["Asia"] = "All Territories"
        /\ \A t \in Territories : Acyclic(p, t, Cardinality(Territories))}

NoCalls == [t \in Territories |-> 0]

\* a settings object as frappe.bean loads it: no _territory_ancestry attribute yet
Settings(enabled, default_territory, tables) ==
    [enabled |-> enabled, default_territory |-> default_territory, company |-> "Company",
     price_lists |-> tables["price_lists"],
     sales_taxes_and_charges_masters |-> tables["sales_taxes_and_charges_masters"],
     shipping_rules |-> tables["shipping_rules"],
     has_territory_ancestry |-> FALSE, territory_ancestry |-> <<>>]

Database(rows, tree, company_currency, price_list_currency, currency_exchange) ==
    [applicable_territory |-> rows, parent_territory |-> tree,
     company_currency |-> company_currency, price_list_currency |-> price_list_currency,
     currency_exchange |-> currency_exchange]

\* the last call made on the object: the method, its arguments, what it
\* returned or raised
Last(op, parentfield, territory, name, ret, err, checks) ==
    [op |-> op, parentfield |-> parentfield, territory |-> territory, name |-> name,
     ret |-> ret, err |-> err, checks |-> checks]

Loaded == Last("load", None, None, <<>>, None, NoError, <<>>)

\* one child table filled, with the `tabApplicable Territory` rows of its documents
Filled(parentfield) ==
    [table : SeqsUpTo(DocNames(parentfield), MaxEntries),
     rows : BagsUpTo(Rows(parentfield), MaxRows)]

\* a child table left empty
Empty == [table |-> <<>>, rows |-> EmptyBag]

\* a child table with one document that is valid for one territory
Single(parentfield, doc, t) ==
    [table |-> <<doc>>,
     rows |-> SetToBag({[territory |-> t, parenttype |-> ParentType(parentfield),
                         parent |-> doc]})]

Tables(pl, tm, sr) ==
    [f \in ParentFields |->
        CASE f = "price_lists" -> pl.table
          [] f = "sales_taxes_and_charges_masters" -> tm.table
          [] f = "shipping_rules" -> sr.table]

\* Resolution: the price lists or the shipping rules are filled, or there is
\* one tax master
Configurations ==
    {<<pl, Empty, Empty>> : pl \in Filled("price_lists")}
      \cup {<<Empty, Single("sales_taxes_and_charges_masters", "TM-A", t), Empty>> :
               t \in Territories}
      \cup {<<Empty, Empty, sr>> : sr \in Filled("shipping_rules")}

Init ==
    /\ \E c \in Configurations, tree \in TerritoryTrees :
         /\ self = Settings(TRUE, "All Territories", Tables(c[1], c[2], c[3]))
         /\ db = Database(c[1].rows (+) c[2].rows (+) c[3].rows, tree, "USD",
                          [p \in DocNames("price_lists") |-> "USD"], {})
    /\ calls = NoCalls
    /\ last = Loaded
    /\ passed = FALSE

\* ------------------------------------------------------------------------
\* Operations
\* ------------------------------------------------------------------------
GetPriceList(t) ==
    \E o \in get_price_list(self, db, calls, t) :
        /\ o.calls[t] <= MaxCalls
        /\ self' = o.self
        /\ calls' = o.calls
        /\ last' = Last("get_price_list", "price_lists", t, o.name, o.ret, NoError, <<>>)
        /\ UNCHANGED <<db, passed>>

GetTaxMaster(t) ==
    \E o \in get_tax_master(self, db, calls, t) :
        /\ o.calls[t] <= MaxCalls
        /\ self' = o.self
        /\ calls' = o.calls
        /\ last' = Last("get_tax_master", "sales_taxes_and_charges_masters", t, o.name,
                        o.ret, NoError, <<>>)
        /\ UNCHANGED <<db, passed>>

\* get_shipping_rules returns the list itself: `name` holds it, `ret` is unused
GetShippingRules(t) ==
    \E o \in get_shipping_rules(self, db, calls, t) :
        /\ o.calls[t] <= MaxCalls
        /\ self' = o.self
        /\ calls' = o.calls
        /\ last' = Last("get_shipping_rules", "shipping_rules", t, o.ret, None, NoError, <<>>)
        /\ UNCHANGED <<db, passed>>

\* frappe.bean("Shopping Cart Settings", "Shopping Cart Settings"): the saved
\* settings loaded into a new object
Load ==
    /\ self' = [self EXCEPT !.has_territory_ancestry = FALSE, !.territory_ancestry = <<>>]
    /\ calls' = NoCalls
    /\ last' = Loaded
    /\ UNCHANGED <<db, passed>>

\* validate, run by a save of the settings
Validate ==
    \E o \in validate(self, db, calls) :
        /\ \A t \in Territories : o.calls[t] <= MaxCalls
        /\ self' = o.self
        /\ calls' = o.calls
        /\ last' = Last("validate", None, None, <<>>, None, o.err, o.checks)
        /\ passed' = (self.enabled /\ o.err = NoError)
        /\ UNCHANGED db

\* validate_overlapping_territories called on one child table
ValidateOverlappingTerritories(parentfield) ==
    \E e \in validate_overlapping_territories(self, db, parentfield) :
        /\ last' = Last("validate_overlapping_territories", parentfield, None, <<>>, None,
                        e, <<>>)
        /\ UNCHANGED <<self, db, calls, passed>>

\* validate_exchange_rates_exist called on its own
ValidateExchangeRatesExist ==
    \E e \in validate_exchange_rates_exist(self, db) :
        /\ last' = Last("validate_exchange_rates_exist", None, None, <<>>, None, e, <<>>)
        /\ UNCHANGED <<self, db, calls, passed>>

\* the Territory tree is rearranged in the database
ChangeTerritoryTree ==
    \E tree \in TerritoryTrees :
        /\ tree # db.parent_territory
        /\ db' = [db EXCEPT !.parent_territory = tree]
        /\ last' = Last("tree changed", None, None, <<>>, None, NoError, <<>>)
        /\ passed' = FALSE
        /\ UNCHANGED <<self, calls>>

Next ==
    \/ \E t \in Territories : GetPriceList(t)
    \/ \E t \in Territories : GetTaxMaster(t)
    \/ \E t \in Territories : GetShippingRules(t)
    \/ Load

\* one settings object after another over a fixed database
Spec == Init /\ [][Next]_vars

\* Saving: the price lists are filled freely beside no or one tax master, or
\* the tax masters beside one price list; PL-A is priced in EUR, PL-B in USD
ValidateConfigurations ==
    {<<pl, tm>> : pl \in Filled("price_lists"),
                  tm \in {Empty, Single("sales_taxes_and_charges_masters", "TM-A",
                                        "All Territories")}}
      \cup {<<Single("price_lists", "PL-A", "All Territories"), tm>> :
               tm \in Filled("sales_taxes_and_charges_masters")}

\* India under Asia under All Territories
ChainTree ==
    [t \in Territories |->
        CASE t = "All Territories" -> None [] t = "Asia" -> "All Territories"
          [] t = "India" -> "Asia"]

InitValidate ==
    /\ \E c \in ValidateConfigurations, enabled \in BOOLEAN, default_territory \in Territories,
          currency_exchange \in {{}, {exchange_name("EUR", "USD")}} :
         /\ self = Settings(enabled, default_territory, Tables(c[1], c[2], Empty))
         /\ db = Database(c[1].rows (+) c[2].rows, ChainTree, "USD",
                          [p \in DocNames("price_lists") |->
                              IF p = "PL-A" THEN "EUR" ELSE "USD"],
                          currency_exchange)
    /\ calls = NoCalls
    /\ last = Loaded
    /\ passed = FALSE

NextValidate ==
    \/ Validate
    \/ \E f \in {"price_lists", "sales_taxes_and_charges_masters"} :
          ValidateOverlappingTerritories(f)
    \/ GetPriceList(self.default_territory)
    \/ Load

\* the settings are saved, and the storefront asks for the price list of the
\* default territory
SpecValidate == InitValidate /\ [][NextValidate]_vars

ExchangeNames == {exchange_name(c, k) : c \in Currencies, k \in Currencies}

SubsetsUpTo(S, n) == {x \in SUBSET S : Cardinality(x) <= n}

\* Currencies: PL-A is valid for All Territories, PL-B for Asia, TM-A is listed
InitCurrency ==
    /\ \E table \in SeqsUpTo(DocNames("price_lists"), MaxEntries),
          company_currency \in Currencies \cup {None},
          price_list_currency \in [DocNames("price_lists") -> Currencies \cup {None}],
          currency_exchange \in SubsetsUpTo(ExchangeNames, MaxRates) :
         /\ self = Settings(TRUE, "All Territories",
                            Tables([table |-> table], [table |-> <<"TM-A">>], Empty))
         /\ db = Database(SetToBag({[territory |-> "All Territories",
                                     parenttype |-> "Price List", parent |-> "PL-A"],
                                    [territory |-> "Asia",
                                     parenttype |-> "Price List", parent |-> "PL-B"]}),
                          ChainTree, company_currency, price_list_currency, currency_exchange)
    /\ calls = NoCalls
    /\ last = Loaded
    /\ passed = FALSE

NextCurrency ==
    \/ ValidateExchangeRatesExist
    \/ Validate
    \/ Load

\* the exchange rates of the price lists' currencies are checked
SpecCurrency == InitCurrency /\ [][NextCurrency]_vars

\* Reload: PL-A is the one price list, valid for one territory
InitTreeChange ==
    /\ \E t \in Territories, tree \in TerritoryTrees :
         /\ self = Settings(TRUE, "All Territories",
                            Tables(Single("price_lists", "PL-A", t), Empty, Empty))
         /\ db = Database(Single("price_lists", "PL-A", t).rows, tree, "USD",
                          [p \in DocNames("price_lists") |-> "USD"], {})
    /\ calls = NoCalls
    /\ last = Loaded
    /\ passed = FALSE

NextTreeChange ==
    \/ Next
    \/ ChangeTerritoryTree

\* the Territory tree changes while a settings object is in use
SpecTreeChange == InitTreeChange /\ [][NextTreeChange]_vars

\* ------------------------------------------------------------------------
\* What the settings and the database say, stated without the code's steps
\* ------------------------------------------------------------------------
ResolveOps == {"get_price_list", "get_tax_master", "get_shipping_rules"}

RECURSIVE Copies(_, _)
Copies(x, n) == IF n = 0 THEN <<>> ELSE <<x>> \o Copies(x, n - 1)

\* the rule-refs of the child table, from its row i on, that the database
\* assigns to territory t: one per Applicable Territory row, in table order
RECURSIVE AssignedFrom(_, _, _)
AssignedFrom(parentfield, t, i) ==
    LET names == self[parentfield]
        row == [territory |-> t, parenttype |-> ParentType(parentfield), parent |-> names[i]]
    IN  IF i > Len(names) THEN <<>>
        ELSE (IF \E j \in 1..(i-1) : names[j] = names[i] THEN <<>>
              ELSE Copies(names[i], CopiesIn(row, db.applicable_territory)))
             \o AssignedFrom(parentfield, t, i + 1)

Assigned(parentfield, t) == AssignedFrom(parentfield, t, 1)

\* the ancestor chain of t in the Territory tree of the database, nearest first
Chain(t) == get_ancestors_of(db, t)

HasEntry(parentfield, t) == Assigned(parentfield, t) # <<>>

\* position i of t's chain is the nearest ancestor with an entry
Nearest(parentfield, t, i) ==
    /\ i \in 1..Len(Chain(t))
    /\ HasEntry(parentfield, Chain(t)[i])
    /\ \A j \in 1..(i-1) : ~HasEntry(parentfield, Chain(t)[j])

Resolving == last.op \in ResolveOps

\* C1: a territory with no direct entry and at least one ancestor with an entry
\* resolves to the rule-refs of the nearest such ancestor of its chain, never
\* to those of a farther one.
C1_NearestAncestorWins ==
    (Resolving /\ ~HasEntry(last.parentfield, last.territory)) =>
        \A i \in 1..Len(Chain(last.territory)) :
            Nearest(last.parentfield, last.territory, i) =>
                last.name = Assigned(last.parentfield, Chain(last.territory)[i])

\* C1 witness: resolved through the chain past an ancestor with an entry of its own
C1_Witness ==
    /\ Resolving /\ ~HasEntry(last.parentfield, last.territory)
    /\ Nearest(last.parentfield, last.territory, 1)
    /\ Len(Chain(last.territory)) = 2
    /\ HasEntry(last.parentfield, Chain(last.territory)[2])
    /\ last.name = Assigned(last.parentfield, Chain(last.territory)[1])
    /\ last.name # Assigned(last.parentfield, Chain(last.territory)[2])

\* C2: a territory with a direct entry resolves to exactly the rule-refs
\* assigned to it, and that call neither asks the Territory tree for ancestors
\* nor touches the ancestry cache.
C2_DirectEntryNoLookup ==
    [][(last'.op \in ResolveOps /\ HasEntry(last'.parentfield, last'.territory)) =>
          /\ last'.name = Assigned(last'.parentfield, last'.territory)
          /\ calls' = calls
          /\ self'.territory_ancestry = self.territory_ancestry
          /\ self'.has_territory_ancestry = self.has_territory_ancestry]_vars

\* C2 witness: a direct hit on a territory that has ancestors, nothing fetched
C2_Witness ==
    /\ Resolving /\ HasEntry(last.parentfield, last.territory)
    /\ last.name = Assigned(last.parentfield, last.territory)
    /\ Chain(last.territory) # <<>>
    /\ calls = NoCalls /\ ~self.has_territory_ancestry

\* C7: a territory with no direct entry and no entry anywhere on its chain
\* (a root, an empty table) resolves to nothing without an error, and
\* get_price_list and get_tax_master return None.
C7_NoMatchIsNone ==
    (/\ Resolving
     /\ ~HasEntry(last.parentfield, last.territory)
     /\ \A i \in 1..Len(Chain(last.territory)) :
            ~HasEntry(last.parentfield, Chain(last.territory)[i])) =>
        /\ last.name = <<>>
        /\ last.err = NoError
        /\ last.op \in {"get_price_list", "get_tax_master"} => last.ret = None

\* C7 witness: nothing found for a territory with ancestors although the table
\* has entries for other territories
C7_Witness ==
    /\ last.op = "get_price_list" /\ last.ret = None /\ last.name = <<>>
    /\ Chain(last.territory) # <<>>
    /\ \E t \in Territories : HasEntry("price_lists", t)

\* the rule-refs a territory resolves to: its own, else those of the nearest
\* ancestor that has any, else none
Resolved(parentfield, t) ==
    IF HasEntry(parentfield, t) THEN Assigned(parentfield, t)
    ELSE IF \E i \in 1..Len(Chain(t)) : Nearest(parentfield, t, i)
    THEN Assigned(parentfield, Chain(t)[CHOOSE i \in 1..Len(Chain(t)) : Nearest(parentfield, t, i)])
    ELSE <<>>

\* C8: get_price_list and get_tax_master return the first rule-ref of what the
\* territory resolves to, or None; get_shipping_rules returns the whole list,
\* in table order.
C8_Wrappers ==
    /\ last.op \in {"get_price_list", "get_tax_master"} =>
          last.ret = (IF Resolved(last.parentfield, last.territory) = <<>> THEN None
                      ELSE Resolved(last.parentfield, last.territory)[1])
    /\ last.op = "get_shipping_rules" =>
          last.name = Resolved("shipping_rules", last.territory)

\* C8 witness: two shipping rules of one territory returned in table order,
\* which is not the order of their names
C8_Witness ==
    /\ last.op = "get_shipping_rules"
    /\ last.name = <<"SR-B", "SR-A">>
    /\ self.shipping_rules = <<"SR-B", "SR-A">>

\* C9: in one session get_ancestors_of is called at most once per territory.
C9_AtMostOneLookup == \A t \in Territories : calls[t] <= 1

\* the territories that several rows of a child table's documents assign
Common(parentfield) == {t \in Territories : Len(Assigned(parentfield, t)) > 1}

\* C3: on a child table with rows, validate_overlapping_territories succeeds
\* when no territory is assigned more than once; otherwise it fails with the
\* overlap error for the child doctype, naming a shared territory and the
\* rule-refs that share it, in table order.
C3_Overlap ==
    (last.op = "validate_overlapping_territories" /\ self[last.parentfield] # <<>>) =>
        IF Common(last.parentfield) = {} THEN last.err = NoError
        ELSE /\ last.err.msg = "have a common territory"
             /\ last.err.subject = ChildDoctype(last.parentfield)
             /\ last.err.territory \in Common(last.parentfield)
             /\ last.err.names = Assigned(last.parentfield, last.err.territory)

\* C3 witness: PL-B and PL-A share Asia and are named as the table lists them
C3_Witness ==
    /\ last.op = "validate_overlapping_territories"
    /\ self.price_lists = <<"PL-B", "PL-A">>
    /\ last.err.msg = "have a common territory"
    /\ last.err.territory = "Asia"
    /\ last.err.names = <<"PL-B", "PL-A">>

CheckOrder ==
    <<"price_lists overlap", "price_lists default territory",
      "sales_taxes_and_charges_masters overlap", "exchange rates">>

\* the exchange rates the price lists of the table need
Required ==
    {exchange_name(db.price_list_currency[p], db.company_currency) :
        p \in {q \in Range(self.price_lists) : db.price_list_currency[q] # db.company_currency}}

CurrenciesSet ==
    /\ db.company_currency # None
    /\ \A p \in Range(self.price_lists) : db.price_list_currency[p] # None

\* check k of CheckOrder would pass on the settings and the database
CheckPasses(k) ==
    CASE k = 1 -> self.price_lists # <<>> /\ Common("price_lists") = {}
      [] k = 2 -> Resolved("price_lists", self.default_territory) # <<>>
      [] k = 3 -> /\ self.sales_taxes_and_charges_masters # <<>>
                  /\ Common("sales_taxes_and_charges_masters") = {}
      [] k = 4 -> CurrenciesSet /\ Required \subseteq db.currency_exchange

\* the messages check k raises
CheckMessages(k) ==
    CASE k \in {1, 3} -> {"Please enter atleast one row in table", "have a common territory"}
      [] k = 2 -> {"Please specify a Price List which is valid for Territory"}
      [] k = 4 -> {"Please specify currency in Company", "Currency is missing for Price List",
                   "Missing Currency Exchange Rates for"}

\* C4: validate of disabled settings runs no check and succeeds; of enabled
\* settings it runs the four checks in order up to the first that fails, and
\* raises that check's error.
C4_ValidateOrder ==
    last.op = "validate" =>
        IF ~self.enabled THEN last.checks = <<>> /\ last.err = NoError
        ELSE IF \A k \in 1..4 : CheckPasses(k)
        THEN last.checks = CheckOrder /\ last.err = NoError
        ELSE LET f == CHOOSE k \in 1..4 : ~CheckPasses(k) /\ \A j \in 1..(k-1) : CheckPasses(j)
             IN  /\ last.checks = SubSeq(CheckOrder, 1, f)
                 /\ last.err.msg \in CheckMessages(f)
                 /\ f \in {1, 2} => last.err.subject \in {"price_lists", "Shopping Cart Price List", None}
                 /\ f = 3 => last.err.subject \in {"sales_taxes_and_charges_masters",
                                                   "Shopping Cart Taxes and Charges Master"}

\* C4 witness: the tax masters overlap and an exchange rate is missing; the
\* save stops at the tax masters
C4_Witness ==
    /\ last.op = "validate" /\ self.enabled
    /\ Len(last.checks) = 3
    /\ last.err.msg = "have a common territory"
    /\ ~CheckPasses(4)

CoverageMessage == "Please specify a Price List which is valid for Territory"

\* C5: the default-territory check fails, naming default_territory, exactly
\* when default_territory resolves to no price list; and once enabled settings
\* have passed validate, get_price_list(default_territory) returns a price list.
C5_DefaultCoverage ==
    /\ (last.op = "validate" /\ Len(last.checks) >= 2) =>
          ((last.err.msg = CoverageMessage /\ last.err.territory = self.default_territory)
              <=> Resolved("price_lists", self.default_territory) = <<>>)
    /\ (passed /\ last.op = "get_price_list" /\ last.territory = self.default_territory) =>
          last.ret \in DocNames("price_lists")

\* C5 witness: after a save that passed, a new object finds the default
\* territory's price list through an ancestor
C5_Witness ==
    /\ passed /\ last.op = "get_price_list" /\ last.territory = self.default_territory
    /\ ~HasEntry("price_lists", self.default_territory)
    /\ last.ret \in DocNames("price_lists")

\* C6: with a company currency and a currency on every price list,
\* validate_exchange_rates_exist fails with the missing-rates error exactly
\* when a pair currency-company_currency of a price-list currency other than
\* the company's is not a Currency Exchange record, and lists exactly those pairs.
C6_ExchangeRates ==
    (last.op = "validate_exchange_rates_exist" /\ CurrenciesSet) =>
        LET pairs == {exchange_name(c, db.company_currency) :
                         c \in {db.price_list_currency[p] : p \in Range(self.price_lists)}
                                   \ {db.company_currency}}
            absent == {n \in pairs : n \notin db.currency_exchange}
        IN  IF absent = {} THEN last.err = NoError
            ELSE /\ last.err.msg = "Missing Currency Exchange Rates for"
                 /\ last.err.missing = absent

\* C6 witness: EUR-USD exists, INR-USD does not and is the one pair listed
C6_Witness ==
    /\ last.op = "validate_exchange_rates_exist"
    /\ db.company_currency = "USD"
    /\ exchange_name("EUR", "USD") \in db.currency_exchange
    /\ {db.price_list_currency[p] : p \in Range(self.price_lists)} = {"EUR", "INR"}
    /\ last.err.missing = {exchange_name("INR", "USD")}

\* C10: a call resolves by the Territory tree as it is at that call, whatever
\* an earlier call has fetched.
C10_NoStaleAncestry ==
    Resolving => last.name = Resolved(last.parentfield, last.territory)

====
